---- MODULE Spec2Model ----
(***************************************************************************)
(* Model of app.py (Document Q&A Bot): the line chunker chunk_text, the    *)
(* per-chunk generation loops generate_summary and generate_bullet_points, *)
(* and the session logic of main (one script run per action).              *)
(*                                                                         *)
(* A Python str is a sequence of one-character strings.  Two characters    *)
(* are written with longer names: BULLET is U+2022, and BLOCK abbreviates  *)
(* a run of BlockLen equal non-newline, non-space characters, so that      *)
(* documents longer than the 8000-character default budget stay small.     *)
(* None | value is the record None or Some(value).                         *)
(***************************************************************************)
EXTENDS Integers, Sequences, FiniteSets, TLC

VARIABLES
    \* chunk_text called on its own
    ct_text, ct_max, ct_chunks,
    \* one call of generate_summary / generate_bullet_points
    op, pc, text, chunks, i, calls, responses, summary, all_bullet_points,
    debug_output, errors, result,
    \* the Streamlit session running main
    GEMINI_API_KEY, session_state, run

ctVars   == <<ct_text, ct_max, ct_chunks>>
genVars  == <<op, pc, text, chunks, i, calls, responses, summary,
              all_bullet_points,
              debug_output, errors, result>>
mainVars == <<GEMINI_API_KEY, session_state, run>>
vars     == <<ctVars, genVars, mainVars>>

----------------------------------------------------------------------------
(* Bounds of the model *)

MaxTextLen    == 4      \* characters of a text handed to chunk_text alone
MaxGenTextLen == 3      \* characters of a document handed to generate_*
MaxRespTokens == 1      \* tokens of one model response
MaxParts      == 1      \* pages / paragraphs of an uploaded file
BlockLen      == 4000   \* characters abbreviated by BLOCK

----------------------------------------------------------------------------
(* Python values *)

None    == [some |-> FALSE, val |-> <<>>]
Some(v) == [some |-> TRUE,  val |-> v]

BULLET == "U+2022"
BLOCK  == "BLOCK"
NL     == "\n"

\* str.strip() with no argument removes these (ASCII part)
Whitespace == {" ", "\t", "\n", "\r", "\f"}

UpperCase == <<"A","B","C","D","E","F","G","H","I","J","K","L","M",
               "N","O","P","Q","R","S","T","U","V","W","X","Y","Z">>
LowerCase == <<"a","b","c","d","e","f","g","h","i","j","k","l","m",
               "n","o","p","q","r","s","t","u","v","w","x","y","z">>

\* str.lower(), one character
LowerChar(c) ==
    IF \E k \in 1..26 : UpperCase[k] = c
    THEN LowerCase[CHOOSE k \in 1..26 : UpperCase[k] = c]
    ELSE c

\* str.lower()
lower(s) == [k \in 1..Len(s) |-> LowerChar(s[k])]

\* len(s)
RECURSIVE len(_)
len(s) ==
    IF s = <<>> THEN 0
    ELSE (IF Head(s) = BLOCK THEN BlockLen ELSE 1) + len(Tail(s))

\* s.startswith(prefix)
startswith(s, prefix) ==
    /\ Len(prefix) <= Len(s)
    /\ SubSeq(s, 1, Len(prefix)) = prefix

\* s.endswith(suffix)
endswith(s, suffix) ==
    /\ Len(suffix) <= Len(s)
    /\ SubSeq(s, Len(s) - Len(suffix) + 1, Len(s)) = suffix

\* s.split(sep) for a one-character separator
RECURSIVE split(_, _)
split(s, sep) ==
    IF \A k \in 1..Len(s) : s[k] # sep
    THEN <<s>>
    ELSE LET k == CHOOSE n \in 1..Len(s) :
                      s[n] = sep /\ \A m \in 1..(n - 1) : s[m] # sep
         IN  <<SubSeq(s, 1, k - 1)>> \o split(SubSeq(s, k + 1, Len(s)), sep)

\* sep.join(parts)
RECURSIVE join(_, _)
join(sep, parts) ==
    IF parts = <<>> THEN <<>>
    ELSE IF Len(parts) = 1 THEN parts[1]
    ELSE parts[1] \o sep \o join(sep, Tail(parts))

RECURSIVE lstrip(_)
lstrip(s) ==
    IF s # <<>> /\ Head(s) \in Whitespace THEN lstrip(Tail(s)) ELSE s

RECURSIVE rstrip(_)
rstrip(s) ==
    IF s # <<>> /\ s[Len(s)] \in Whitespace
    THEN rstrip(SubSeq(s, 1, Len(s) - 1))
    ELSE s

\* str.strip()
strip(s) == rstrip(lstrip(s))

\* concatenation of a list of strings
RECURSIVE Concat(_)
Concat(parts) ==
    IF parts = <<>> THEN <<>> ELSE Head(parts) \o Concat(Tail(parts))

\* all sequences over S of length at most n
SeqsUpTo(S, n) == UNION {[1..k -> S] : k \in 0..n}

----------------------------------------------------------------------------
(* chunk_text *)

\* bug variant: a line that overflows the budget replaces the pending chunk
chunk_step_dropping(acc, paragraph, max_chunk_size) ==
    IF len(acc.current_chunk) + len(paragraph) > max_chunk_size
    THEN [chunks |-> acc.chunks, current_chunk |-> paragraph \o <<NL>>]
    ELSE [chunks |-> acc.chunks,
          current_chunk |-> acc.current_chunk \o paragraph \o <<NL>>]

\* body of the for loop, one paragraph
chunk_step(acc, paragraph, max_chunk_size) ==
    IF len(acc.current_chunk) + len(paragraph) > max_chunk_size
    THEN [chunks |-> Append(acc.chunks, acc.current_chunk),
          current_chunk |-> paragraph \o <<NL>>]
    ELSE [chunks |-> acc.chunks,
          current_chunk |-> acc.current_chunk \o paragraph \o <<NL>>]

\* for paragraph in paragraphs
RECURSIVE chunk_loop(_, _, _)
chunk_loop(acc, paragraphs, max_chunk_size) ==
    IF paragraphs = <<>> THEN acc
    ELSE chunk_loop(chunk_step(acc, Head(paragraphs), max_chunk_size),
                    Tail(paragraphs), max_chunk_size)

chunk_text(txt, max_chunk_size) ==
    LET paragraphs == split(txt, NL)
        acc == chunk_loop([chunks |-> <<>>, current_chunk |-> <<>>],
                          paragraphs, max_chunk_size)
    IN  IF acc.current_chunk # <<>>
        THEN Append(acc.chunks, acc.current_chunk)
        ELSE acc.chunks

DEFAULT_MAX_CHUNK_SIZE == 8000

----------------------------------------------------------------------------
(* Specification SpecChunk: chunk_text applied to every small text *)

DocChars == {"a", BLOCK, NL}
Texts    == SeqsUpTo(DocChars, MaxTextLen)
ChunkSizes == 0..3 \cup {BlockLen, DEFAULT_MAX_CHUNK_SIZE}

GenIdle ==
    /\ op = "none" /\ pc = "idle" /\ text = <<>> /\ chunks = <<>> /\ i = 0
    /\ calls = <<>> /\ responses = <<>> /\ summary = <<>>
    /\ all_bullet_points = <<>>
    /\ debug_output = <<>> /\ errors = <<>> /\ result = None

MainIdle ==
    /\ GEMINI_API_KEY = None
    /\ session_state = <<>>
    /\ run = [ran |-> FALSE, uploaded_file |-> None, question |-> <<>>,
              extracted |-> None, shown |-> {}, calls |-> <<>>]

CtIdle ==
    /\ ct_text = <<>> /\ ct_max = 0 /\ ct_chunks = None

InitChunk ==
    /\ ct_text \in Texts
    /\ ct_max \in ChunkSizes
    /\ ct_chunks = None
    /\ GenIdle
    /\ MainIdle

CallChunkText ==
    /\ ct_chunks = None
    /\ ct_chunks' = Some(chunk_text(ct_text, ct_max))
    /\ UNCHANGED <<ct_text, ct_max, genVars, mainVars>>

NextChunk == CallChunkText

SpecChunk == InitChunk /\ [][NextChunk]_vars

\* C1: every chunk returned by chunk_text is at most max_chunk_size
\* characters long, the newline after each line included.
C1_ChunkWithinBudget ==
    ct_chunks.some =>
        \A k \in 1..Len(ct_chunks.val) : len(ct_chunks.val[k]) <= ct_max

\* C10: the chunks concatenated in order are the input text followed by one
\* newline, and no line is cut by a chunk boundary (every chunk is empty or
\* ends with the newline of its last line).
C10_ChunksPartitionText ==
    ct_chunks.some =>
        /\ Concat(ct_chunks.val) = ct_text \o <<NL>>
        /\ \A k \in 1..Len(ct_chunks.val) :
              LET c == ct_chunks.val[k]
              IN  c = <<>> \/ c[Len(c)] = NL

\* a text of several lines was cut into three chunks
C10_Witness ==
    /\ ct_chunks.some
    /\ Len(ct_chunks.val) >= 3
    /\ Len(split(ct_text, NL)) >= 2

----------------------------------------------------------------------------
(* generate_summary and generate_bullet_points *)

\* bug variant: the response is appended without strip()
summary_step_unstripped(acc, response_text) ==
    acc \o response_text \o <<" ">>

\* chunk_summary = response.text.strip(); summary += chunk_summary + " "
summary_step(acc, response_text) ==
    acc \o strip(response_text) \o <<" ">>

IntroPrefixes == {
    <<"h","e","r","e"," ","a","r","e">>,
    <<"k","e","y"," ","p","o","i","n","t","s">>,
    <<"p","o","i","n","t","s"," ","e","x","t","r","a","c","t","e","d">>,
    <<"f","o","l","l","o","w","i","n","g"," ","a","r","e">> }

BulletPrefixes ==
    {<<BULLET>>, <<"-">>, <<"*">>} \cup
    {<<d, ".">> : d \in {"1","2","3","4","5","6","7","8","9"}}

KeyPointsHeader == <<"K","e","y"," ","P","o","i","n","t","s",":">>

\* any(line.lower().startswith(prefix) for prefix in [...])
is_intro(line) == \E prefix \in IntroPrefixes : startswith(lower(line), prefix)

\* line.startswith(('•', '-', '*', '1.', ..., '9.'))
has_bullet_prefix(line) == \E prefix \in BulletPrefixes : startswith(line, prefix)

\* body of "for line in combined_bullets.split('\n')"
filter_step(acc, raw_line) ==
    LET line     == strip(raw_line)
        bulleted == IF has_bullet_prefix(line) THEN line
                    ELSE <<BULLET, " ">> \o line
    IN  IF line = <<>> THEN acc
        ELSE IF is_intro(line) THEN acc
        ELSE IF bulleted \in acc.seen_lines THEN acc
        ELSE [seen_lines        |-> acc.seen_lines \cup {bulleted},
              processed_bullets |-> Append(acc.processed_bullets, bulleted)]

RECURSIVE filter_loop(_, _)
filter_loop(acc, lines) ==
    IF lines = <<>> THEN acc
    ELSE filter_loop(filter_step(acc, Head(lines)), Tail(lines))

\* lines 254-287: join, filter, de-duplicate, format
clean_bullets(bullet_points) ==
    LET combined_bullets == join(<<NL>>, bullet_points)
        acc == filter_loop([seen_lines |-> {}, processed_bullets |-> <<>>],
                           split(combined_bullets, NL))
        final_output == KeyPointsHeader \o <<NL, NL>>
                            \o join(<<NL>>, acc.processed_bullets)
    IN  IF acc.processed_bullets = <<>> THEN combined_bullets
        ELSE final_output

\* response.text of the remote model: up to MaxRespTokens of these pieces
RespTokens == {
    <<"H","e","r","e"," ","a","r","e">>,
    <<BULLET, " ", "a">>,
    <<"-", " ", "a">>,
    <<" ", "a">>,
    <<NL>> }

Responses == {Concat(ts) : ts \in SeqsUpTo(RespTokens, MaxRespTokens)}

GenTexts == SeqsUpTo({BLOCK, NL}, MaxGenTextLen)

InitGen ==
    /\ GenIdle
    /\ CtIdle
    /\ MainIdle

\* generate_summary(text) up to the for loop
StartSummary ==
    /\ pc = "idle"
    /\ \E t \in GenTexts :
          /\ text' = t
          /\ chunks' = chunk_text(t, DEFAULT_MAX_CHUNK_SIZE)
    /\ op' = "summary"
    /\ pc' = "loop"
    /\ UNCHANGED <<i, calls, responses, summary, all_bullet_points,
                   debug_output, errors, result, ctVars, mainVars>>

\* one iteration: model.generate_content(prompt) answers
SummaryCallOk ==
    /\ op = "summary" /\ pc = "loop" /\ i < Len(chunks)
    /\ \E r \in Responses :
          /\ responses' = Append(responses, r)
          /\ summary' = summary_step(summary, r)
    /\ calls' = Append(calls, chunks[i + 1])
    /\ i' = i + 1
    /\ UNCHANGED <<op, pc, text, chunks, all_bullet_points, debug_output,
                   errors, result, ctVars, mainVars>>

\* one iteration: generate_content or response.text raises; the except
\* clause of the function reports and returns None
SummaryCallFail ==
    /\ op = "summary" /\ pc = "loop" /\ i < Len(chunks)
    /\ calls' = Append(calls, chunks[i + 1])
    /\ errors' = Append(errors, i + 1)
    /\ result' = None
    /\ pc' = "done"
    /\ UNCHANGED <<op, text, chunks, i, responses, summary,
                   all_bullet_points, debug_output, ctVars, mainVars>>

\* return summary.strip()
SummaryReturn ==
    /\ op = "summary" /\ pc = "loop" /\ i = Len(chunks)
    /\ result' = Some(strip(summary))
    /\ pc' = "done"
    /\ UNCHANGED <<op, text, chunks, i, calls, responses, summary,
                   all_bullet_points, debug_output, errors, ctVars, mainVars>>

\* generate_bullet_points(text) up to the for loop
StartBullets ==
    /\ pc = "idle"
    /\ \E t \in GenTexts :
          /\ text' = t
          /\ chunks' = chunk_text(t, DEFAULT_MAX_CHUNK_SIZE)
    /\ op' = "bullets"
    /\ pc' = "loop"
    /\ UNCHANGED <<i, calls, responses, summary, all_bullet_points,
                   debug_output, errors, result, ctVars, mainVars>>

\* one iteration: model.generate_content(prompt) answers
BulletsCallOk ==
    /\ op = "bullets" /\ pc = "loop" /\ i < Len(chunks)
    /\ \E r \in Responses :
          LET chunk_bullets == strip(r)
          IN  /\ responses' = Append(responses, r)
              /\ debug_output' = Append(debug_output, <<i + 1, chunk_bullets>>)
              /\ all_bullet_points' = Append(all_bullet_points, chunk_bullets)
    /\ calls' = Append(calls, chunks[i + 1])
    /\ i' = i + 1
    /\ UNCHANGED <<op, pc, text, chunks, summary, errors, result,
                   ctVars, mainVars>>

\* bug variant: a failed chunk ends the loop
BulletsCallFail_stopping ==
    /\ op = "bullets" /\ pc = "loop" /\ i < Len(chunks)
    /\ calls' = Append(calls, chunks[i + 1])
    /\ errors' = Append(errors, i + 1)
    /\ i' = Len(chunks)
    /\ UNCHANGED <<op, pc, text, chunks, responses, summary,
                   all_bullet_points, debug_output, result, ctVars, mainVars>>

\* one iteration: the call raises; the inner except clause reports the
\* chunk and the loop goes on with the next chunk
BulletsCallFail ==
    /\ op = "bullets" /\ pc = "loop" /\ i < Len(chunks)
    /\ calls' = Append(calls, chunks[i + 1])
    /\ errors' = Append(errors, i + 1)
    /\ i' = i + 1
    /\ UNCHANGED <<op, pc, text, chunks, responses, summary,
                   all_bullet_points, debug_output, result, ctVars, mainVars>>

\* after the loop: clean up and return
BulletsReturn ==
    /\ op = "bullets" /\ pc = "loop" /\ i = Len(chunks)
    /\ result' = Some(clean_bullets(all_bullet_points))
    /\ pc' = "done"
    /\ UNCHANGED <<op, text, chunks, i, calls, responses, summary,
                   all_bullet_points, debug_output, errors, ctVars, mainVars>>

NextGen ==
    \/ StartSummary
    \/ SummaryCallOk
    \/ SummaryCallFail
    \/ SummaryReturn
    \/ StartBullets
    \/ BulletsCallOk
    \/ BulletsCallFail
    \/ BulletsReturn

SpecGen == InitGen /\ [][NextGen]_vars

BulletsDone == op = "bullets" /\ pc = "done" /\ result.some
SummaryDone == op = "summary" /\ pc = "done"

\* the lines of the string a finished generate_bullet_points returned
ResultLines == split(result.val, NL)

\* C2: the string returned by generate_bullet_points contains no non-empty
\* line more than once.
C2_NoDuplicateLine ==
    BulletsDone =>
        \A j, k \in 1..Len(ResultLines) :
            (j < k /\ ResultLines[j] = ResultLines[k]) => ResultLines[j] = <<>>

\* C5: apart from the "Key Points:" header line, no line of the string
\* returned by generate_bullet_points begins, case-insensitively, with one
\* of the introductory prefixes.
C5_NoIntroLine ==
    BulletsDone =>
        \A k \in 1..Len(ResultLines) :
            \/ k = 1 /\ ResultLines[k] = KeyPointsHeader
            \/ ~ is_intro(ResultLines[k])

\* C3 as claimed: in both functions, once a chunk's call has failed no
\* further remote call is made.
C3_FailureStopsBoth ==
    [][errors # <<>> => calls' = calls]_vars

\* C3 as amended: generate_summary stops at the first failed call, while
\* generate_bullet_points reports it and still calls the model once for
\* every chunk, in order.
C3_SummaryStopsBulletsContinue ==
    [][/\ (op = "summary" /\ errors # <<>>) => calls' = calls
       /\ (op' = "summary" /\ errors' # <<>>) =>
              /\ pc' = "done" /\ result' = None
              /\ Len(errors') = 1 /\ Len(calls') = errors'[1]
       /\ (op' = "bullets" /\ pc' = "done") =>
              /\ calls' = chunks'
              /\ \A k \in 1..Len(errors') : errors'[k] \in 1..Len(chunks')]_vars

\* generate_bullet_points finished a two-chunk document whose first call failed
C3_Witness ==
    /\ op = "bullets" /\ pc = "done"
    /\ Len(chunks) >= 2
    /\ errors # <<>> /\ errors[1] = 1
    /\ Len(calls) = Len(chunks)

\* C4: with no failed call, generate_summary calls the model once per chunk
\* of chunk_text(text, 8000), in order, and returns the stripped responses
\* joined by single spaces, the whole stripped.
C4_SummaryIsJoinOfResponses ==
    (SummaryDone /\ errors = <<>>) =>
        /\ calls = chunk_text(text, DEFAULT_MAX_CHUNK_SIZE)
        /\ Len(responses) = Len(calls)
        /\ result = Some(strip(join(<<" ">>,
                        [k \in 1..Len(responses) |-> strip(responses[k])])))

\* a two-chunk document summarised from responses that needed stripping
C4_Witness ==
    /\ SummaryDone /\ errors = <<>>
    /\ Len(chunks) >= 2
    /\ \E k \in 1..Len(responses) :
          responses[k] # strip(responses[k]) /\ strip(responses[k]) # <<>>
    /\ result.some /\ result.val # <<>>

----------------------------------------------------------------------------
(* extract_text and main: one action per script run of a session *)

\* an uploaded file: its name and the text pieces the parsing library
\* yields (the pages of a PDF, the paragraphs of a DOCX, the decoded bytes
\* of a TXT read in order)
\* (main is modelled for any name: the uploader's type list is enforced by
\* the framework, not by this code)
FileNames == {
    <<"D",".","P","D","F">>,
    <<"d",".","d","o","c","x">>,
    <<"n",".","T","x","t">>,
    <<"p","d","f">> }

PartStrings == {<<>>, <<"a">>}

Files == [name : FileNames, parts : SeqsUpTo(PartStrings, MaxParts)]

Questions == {<<>>, <<"q">>}

\* text += page.extract_text() + "\n"
extract_text_from_pdf(file) ==
    Concat([k \in 1..Len(file.parts) |-> file.parts[k] \o <<NL>>])

\* text += paragraph.text + "\n"
extract_text_from_docx(file) ==
    Concat([k \in 1..Len(file.parts) |-> file.parts[k] \o <<NL>>])

\* txt_file.read().decode('utf-8')
extract_text_from_txt(file) == Concat(file.parts)

\* the value returned and the st.error shown
extract_text(file) ==
    LET file_name == lower(file.name)
    IN  IF endswith(file_name, <<".","p","d","f">>)
        THEN [ret |-> Some(extract_text_from_pdf(file)), shown |-> {}]
        ELSE IF endswith(file_name, <<".","d","o","c","x">>)
        THEN [ret |-> Some(extract_text_from_docx(file)), shown |-> {}]
        ELSE IF endswith(file_name, <<".","t","x","t">>)
        THEN [ret |-> Some(extract_text_from_txt(file)), shown |-> {}]
        ELSE [ret |-> None, shown |-> {"Unsupported file format"}]

\* the index, or None when splitting, embedding or FAISS raised
create_vector_store(txt, ok) ==
    IF ok THEN [ret |-> Some([built_from |-> txt]), shown |-> {}]
    ELSE [ret |-> None, shown |-> {"Error creating vector store"}]

\* the chain over the index, or None when its construction raised
setup_rag_chain(vector_store, ok) ==
    IF ok THEN [ret |-> Some([built_from |-> vector_store.built_from]),
                shown |-> {}]
    ELSE [ret |-> None, shown |-> {"Error setting up RAG chain"}]

SessionKeys == {"document_text", "vector_store", "rag_chain"}

\* "if key not in st.session_state: st.session_state.key = None", three times
session_init(ss) ==
    [k \in DOMAIN ss \cup SessionKeys |-> IF k \in DOMAIN ss THEN ss[k] ELSE None]

\* bug variant: only the empty string counts as a missing key
key_missing_empty_only(key) == key.some /\ key.val = <<>>

\* not GEMINI_API_KEY
key_missing(key) == ~ key.some \/ key.val = <<>>

\* bug variant: "if document_text is not None"
truthy_not_none(v) == v.some

\* truth value of None | str
truthy(v) == v.some /\ v.val # <<>>

Call(fn, arg) == [fn |-> fn, arg |-> arg]

\* st.session_state.vector_store is None
needs_index(ss) == ss["vector_store"] = None

\* lines 469-582: the branch taken for a non-empty extraction result.
\* generate_summary and generate_bullet_points run step by step in SpecGen;
\* here a pressed button is recorded as the call it makes.
main_document(ss1, document_text, question, gen_summary, extract_key_points, vs_ok, chain_ok) ==
    LET ss2   == [ss1 EXCEPT !["document_text"] = Some(document_text)]
        build == needs_index(ss2)
        vs    == create_vector_store(document_text, vs_ok)
        ss3   == IF build THEN [ss2 EXCEPT !["vector_store"] = vs.ret] ELSE ss2
        setup == build /\ ss3["vector_store"].some
        chain == setup_rag_chain(ss3["vector_store"].val, chain_ok)
        ss4   == IF setup THEN [ss3 EXCEPT !["rag_chain"] = chain.ret] ELSE ss3
        ask   == question # <<>>
        answer == ask /\ ss4["rag_chain"].some
    IN  [ss    |-> ss4,
         shown |-> {"Success", "tabs"}
                   \cup (IF build THEN vs.shown ELSE {})
                   \cup (IF setup
                         THEN chain.shown \cup
                              {"Vector store created successfully",
                               "Q&A system initialized successfully",
                               "System Ready!"}
                         ELSE {})
                   \cup (IF build /\ ~ setup
                         THEN {"Failed to create vector store"} ELSE {})
                   \cup (IF answer THEN {"Answer"} ELSE {})
                   \cup (IF ask /\ ~ answer
                         THEN {"Search system is not initialized"} ELSE {}),
         calls |-> (IF build
                    THEN <<Call("create_vector_store", document_text)>>
                    ELSE <<>>)
                   \o (IF setup
                       THEN <<Call("setup_rag_chain",
                                   ss3["vector_store"].val.built_from)>>
                       ELSE <<>>)
                   \o (IF answer
                       THEN <<Call("rag_answer_question",
                                   ss4["rag_chain"].val.built_from)>>
                       ELSE <<>>)
                   \o (IF gen_summary
                       THEN <<Call("generate_summary", document_text)>>
                       ELSE <<>>)
                   \o (IF extract_key_points
                       THEN <<Call("generate_bullet_points", document_text)>>
                       ELSE <<>>)]

\* one run of main: the new session state, what is shown, the calls made
main(ss, key, uploaded_file, question, gen_summary, extract_key_points, vs_ok, chain_ok) ==
    LET ss1 == session_init(ss)
    IN  IF key_missing(key)
        THEN [ss |-> ss1, extracted |-> None,
              shown |-> {"API key not found"}, calls |-> <<>>]
        ELSE IF ~ uploaded_file.some
        THEN [ss |-> ss1, extracted |-> None,
              shown |-> {"file_uploader", "Welcome"}, calls |-> <<>>]
        ELSE
        LET x == extract_text(uploaded_file.val)
            c == <<Call("extract_text", uploaded_file.val.name)>>
        IN  IF ~ truthy(x.ret)
            THEN [ss |-> ss1, extracted |-> x.ret,
                  shown |-> {"file_uploader"} \cup x.shown, calls |-> c]
            ELSE LET d == main_document(ss1, x.ret.val, question, gen_summary,
                                        extract_key_points, vs_ok, chain_ok)
                 IN  [ss |-> d.ss, extracted |-> x.ret,
                      shown |-> {"file_uploader"} \cup d.shown,
                      calls |-> c \o d.calls]

NoRun == [ran |-> FALSE, uploaded_file |-> None, question |-> <<>>,
          extracted |-> None, shown |-> {}, calls |-> <<>>]

InitMain ==
    /\ GEMINI_API_KEY \in {None, Some(<<>>), Some(<<"k">>)}
    /\ session_state = <<>>
    /\ run = NoRun
    /\ CtIdle
    /\ GenIdle

\* One script run with the given widget values; the library calls succeed
\* or raise.  run keeps the widget values for the next rerun; a text input
\* that was not rendered loses its value.
RunMain(uploaded_file, question, gen_summary, extract_key_points) ==
    \E vs_ok, chain_ok \in BOOLEAN :
        LET r == main(session_state, GEMINI_API_KEY, uploaded_file, question,
                      gen_summary, extract_key_points, vs_ok, chain_ok)
        IN  /\ session_state' = r.ss
            /\ run' = [ran |-> TRUE, uploaded_file |-> uploaded_file,
                       question |-> IF "tabs" \in r.shown
                                    THEN question ELSE <<>>,
                       extracted |-> r.extracted,
                       shown |-> r.shown, calls |-> r.calls]
            /\ UNCHANGED <<GEMINI_API_KEY, ctVars, genVars>>

\* the page is opened: the first run of the session
OpenPage ==
    /\ ~ run.ran
    /\ RunMain(None, <<>>, FALSE, FALSE)

\* the script is rerun with the widgets as they are
Rerun ==
    /\ run.ran
    /\ RunMain(run.uploaded_file, run.question, FALSE, FALSE)

\* the user puts a file into the uploader
UploadFile ==
    /\ "file_uploader" \in run.shown
    /\ \E f \in Files : RunMain(Some(f), run.question, FALSE, FALSE)

\* the user clears the uploader
RemoveFile ==
    /\ "file_uploader" \in run.shown
    /\ run.uploaded_file.some
    /\ RunMain(None, run.question, FALSE, FALSE)

\* the user types into "Enter your question:"
AskQuestion ==
    /\ "tabs" \in run.shown
    /\ \E q \in Questions : RunMain(run.uploaded_file, q, FALSE, FALSE)

\* the user presses "Generate Summary"
ClickSummary ==
    /\ "tabs" \in run.shown
    /\ RunMain(run.uploaded_file, run.question, TRUE, FALSE)

\* the user presses "Extract Key Points"
ClickBullets ==
    /\ "tabs" \in run.shown
    /\ RunMain(run.uploaded_file, run.question, FALSE, TRUE)

NextMain ==
    \/ OpenPage
    \/ Rerun
    \/ UploadFile
    \/ RemoveFile
    \/ AskQuestion
    \/ ClickSummary
    \/ ClickBullets

SpecMain == InitMain /\ [][NextMain]_vars

\* st.session_state.<k>, a key not yet set reading as None
Get(ss, k) == IF k \in DOMAIN ss THEN ss[k] ELSE None

Suffixes == {<<".","p","d","f">>, <<".","d","o","c","x">>, <<".","t","x","t">>}

Supported(name) == \E sfx \in Suffixes : endswith(lower(name), sfx)

\* the text of a supported file: each page or paragraph followed by a
\* newline for .pdf and .docx, the decoded content as it is for .txt
ExpectedText(file) ==
    IF endswith(lower(file.name), <<".","t","x","t">>)
    THEN Concat(file.parts)
    ELSE Concat([k \in 1..Len(file.parts) |-> file.parts[k] \o <<NL>>])

ModelCalls == {"create_vector_store", "setup_rag_chain", "rag_answer_question",
               "generate_summary", "generate_bullet_points"}

Called(r, fns) == \E k \in 1..Len(r.calls) : r.calls[k].fn \in fns

\* C6: extract_text returns None and reports "Unsupported file format"
\* exactly for names whose lower-cased suffix is none of .pdf, .docx, .txt;
\* a run of main whose extraction result is None or empty leaves
\* document_text, vector_store and rag_chain as they were and makes no
\* vector-store, chain or model call.
C6_FalsyExtractionChangesNothing ==
    [][(run'.ran /\ run'.uploaded_file.some) =>
          /\ (run'.extracted = None) <=> ~ Supported(run'.uploaded_file.val.name)
          /\ ("Unsupported file format" \in run'.shown)
                <=> ~ Supported(run'.uploaded_file.val.name)
          /\ Supported(run'.uploaded_file.val.name) =>
                run'.extracted = Some(ExpectedText(run'.uploaded_file.val))
          /\ (run'.extracted = None \/ run'.extracted = Some(<<>>)) =>
                /\ \A k \in SessionKeys :
                      Get(session_state', k) = Get(session_state, k)
                /\ ~ Called(run', ModelCalls)]_vars

\* an empty document is uploaded over a session that holds an indexed one
C6_Witness ==
    /\ run.ran /\ run.uploaded_file.some
    /\ run.extracted = Some(<<>>)
    /\ session_state["document_text"].some
    /\ session_state["vector_store"].some

\* C7: while GEMINI_API_KEY is not set, every run shows only the
\* "API key not found" error: no uploader, no extraction, no index, no chain,
\* no model call, and the session holds no document.
C7_NoKeyNoWork ==
    (GEMINI_API_KEY = None /\ run.ran) =>
        /\ run.shown = {"API key not found"}
        /\ run.calls = <<>>
        /\ \A k \in SessionKeys : Get(session_state, k) = None

\* main has run without a key
C7_Witness ==
    /\ GEMINI_API_KEY = None
    /\ run.ran
    /\ "API key not found" \in run.shown

\* C8: whenever a question is answered, the vector store and the chain in
\* the session were built from the session's current document_text.
C8_AnswerFromCurrentDocument ==
    Called(run, {"rag_answer_question"}) =>
        /\ session_state["vector_store"].val.built_from
              = session_state["document_text"].val
        /\ session_state["rag_chain"].val.built_from
              = session_state["document_text"].val

\* C9: "Q&A system initialized successfully" / "System Ready!" is shown only
\* with a chain in the session, and after a run on a non-empty document a
\* vector store in the session comes with a chain.
C9_IndexImpliesChain ==
    /\ ({"Q&A system initialized successfully", "System Ready!"} \cap run.shown # {})
          => session_state["rag_chain"].some
    /\ (run.ran /\ run.extracted.some /\ run.extracted.val # <<>>)
          => (session_state["vector_store"].some
                 => session_state["rag_chain"].some)

====
